---------------------------- MODULE Spec2Model ----------------------------
(***************************************************************************)
(* Model of find_files.py: a watchdog handler that keeps an in-memory      *)
(* cache of the watched directory's files (file_content,                   *)
(* last_modified_files), debounces "modified" events, classifies files as  *)
(* text or binary, diffs text changes and mails a notification per event.  *)
(*                                                                         *)
(* Representation.                                                         *)
(*  - A string (a file name, a line of text) is a sequence of characters.  *)
(*    A name is a sequence of one-character strings; file bytes and        *)
(*    decoded text are run-length encoded: a sequence of runs              *)
(*    [c |-> code, n |-> count], adjacent runs differing in c, so that a   *)
(*    file longer than the 1024-byte chunk of is_text_file is a small      *)
(*    value.                                                               *)
(*  - A file on disk, as one open() sees it, is [err, bytes]: err = TRUE   *)
(*    when open() raises (missing, permission denied).                     *)
(*  - Python's None is the model value None; a dict is a function whose    *)
(*    DOMAIN is its key set.                                               *)
(***************************************************************************)
EXTENDS Integers, Sequences, FiniteSets, TLC

VARIABLES
    now,                  \* the value time.time() returns
    file_content,         \* dict: name -> None | list of lines
    last_modified_files,  \* dict: name -> time
    alive,                \* the observer thread still delivers events
    nEvents,              \* events dispatched so far
    last,                 \* the most recent dispatch: its inputs and what it did
    hist,                 \* history of each name: its last notified "modified", ...
    seeded,               \* history: names seeded/created and not deleted since
    scn,                  \* history: progress of the three-modification scenario
    env,                  \* the environment of this run: what events it may deliver
    pure                  \* input/output of a pure function under check

vars == <<now, file_content, last_modified_files, alive, nEvents, last,
          hist, seeded, scn, env, pure>>

\* Python's None where a list of lines may stand: a value of the same shape
\* as a list of lines that is no list of lines (a run has n >= 1, c >= 0).
None == <<<<[c |-> -1, n |-> 0]>>>>

(***************************************************************************)
(* Strings                                                                 *)
(***************************************************************************)
startswith(s, p) == Len(s) >= Len(p) /\ SubSeq(s, 1, Len(p)) = p

endswith(s, p) == Len(s) >= Len(p) /\ SubSeq(s, Len(s) - Len(p) + 1, Len(s)) = p

S_FileMonitor == <<"F","i","l","e","M","o","n","i","t","o","r","_">>
S_log  == <<".","l","o","g">>
S_json == <<".","j","s","o","n">>
S_txt  == <<".","t","x","t">>

Name_a   == <<"a">> \o S_txt
Name_b   == <<"b">> \o S_json
Name_log == S_FileMonitor \o <<"1">> \o S_log
Name_sub == <<"s", "u", "b">>

\* The base names the watch service reports events for.
Names == {Name_a, Name_b, Name_log, Name_sub}

(***************************************************************************)
(* Run-length encoded strings                                              *)
(***************************************************************************)
Run(c, n) == [c |-> c, n |-> n]

\* s followed by n copies of c.
Emit(s, c, n) ==
    IF n = 0 THEN s
    ELSE IF s # <<>> /\ s[Len(s)].c = c
         THEN [s EXCEPT ![Len(s)] = Run(c, s[Len(s)].n + n)]
         ELSE Append(s, Run(c, n))

\* s without its first character.
Rest(s) == IF s[1].n = 1 THEN Tail(s) ELSE <<Run(s[1].c, s[1].n - 1)>> \o Tail(s)

RECURSIVE Take(_, _)
\* f.read(k): the first k bytes.
Take(s, k) ==
    IF k = 0 \/ s = <<>> THEN <<>>
    ELSE IF s[1].n <= k THEN <<s[1]>> \o Take(Tail(s), k - s[1].n)
    ELSE <<Run(s[1].c, k)>>

RECURSIVE Length(_)
Length(s) == IF s = <<>> THEN 0 ELSE s[1].n + Length(Tail(s))

\* The bytes at offsets >= k.
RECURSIVE Drop(_, _)
Drop(s, k) ==
    IF k = 0 \/ s = <<>> THEN s
    ELSE IF s[1].n <= k THEN Drop(Tail(s), k - s[1].n)
    ELSE <<Run(s[1].c, s[1].n - k)>> \o Tail(s)

(***************************************************************************)
(* Files                                                                   *)
(***************************************************************************)
File(bytes) == [err |-> FALSE, bytes |-> bytes]
Unreadable == [err |-> TRUE, bytes |-> <<>>]

ChunkSize == 1024

\* is_text_file reading the whole file instead of its first chunk.
is_text_file_wholefile(file) ==
    IF file.err THEN FALSE
    ELSE \A i \in 1..Len(file.bytes) :
            file.bytes[i].c < 128 \/ file.bytes[i].c \in {10, 13, 9}

\* is_text_file: every byte of the first 1024 is < 128 (or \n \r \t);
\* an exception (open fails) is caught and answers False.
is_text_file(file) ==
    IF file.err THEN FALSE
    ELSE LET chunk == Take(file.bytes, ChunkSize)
         IN  \A i \in 1..Len(chunk) : chunk[i].c < 128 \/ chunk[i].c \in {10, 13, 9}

\* The utf-8 decoder of open(..., encoding='utf-8'): the code points, or
\* DecodeError (UnicodeDecodeError). One- and two-byte sequences; a lead byte
\* of a longer sequence (0xE0..0xF4) occurs in no file of the model.
DecodeError == <<[c |-> -1, n |-> 0]>>

RECURSIVE utf8_decode(_, _)
utf8_decode(bytes, acc) ==
    IF bytes = <<>> THEN acc
    ELSE LET b == bytes[1].c IN
         IF b < 128 THEN utf8_decode(Tail(bytes), Emit(acc, b, bytes[1].n))
         ELSE IF b >= 194 /\ b <= 223
                 /\ Rest(bytes) # <<>>
                 /\ Rest(bytes)[1].c >= 128 /\ Rest(bytes)[1].c <= 191
              THEN utf8_decode(Rest(Rest(bytes)),
                               Emit(acc, (b - 192) * 64 + (Rest(bytes)[1].c - 128), 1))
              ELSE DecodeError

\* str.splitlines() after text-mode newline translation: the lines without
\* their terminators; \r\n is one terminator; no last empty line.
LineBreaks == {10, 11, 12, 13, 28, 29, 30, 133, 8232, 8233}

Empties(k) == [i \in 1..k |-> <<>>]

RECURSIVE splitlines_from(_, _, _)
splitlines_from(text, cur, afterCR) ==
    IF text = <<>> THEN (IF cur # <<>> THEN <<cur>> ELSE <<>>)
    ELSE LET c == text[1].c
             n == text[1].n
         IN  IF c \in LineBreaks
             THEN LET k == IF c = 10 /\ afterCR THEN n - 1 ELSE n
                  IN  IF k = 0 THEN splitlines_from(Tail(text), cur, FALSE)
                      ELSE <<cur>> \o Empties(k - 1)
                           \o splitlines_from(Tail(text), <<>>, c = 13)
             ELSE splitlines_from(Tail(text), Emit(cur, c, n), FALSE)

splitlines(text) == splitlines_from(text, <<>>, FALSE)


Cat(s, t) == IF t = <<>> THEN s ELSE Emit(s, t[1].c, t[1].n) \o Tail(t)

RECURSIVE join_nl(_)
\* '\n'.join(lines)
join_nl(lines) ==
    IF lines = <<>> THEN <<>>
    ELSE IF Len(lines) = 1 THEN lines[1]
    ELSE Cat(Emit(lines[1], 10, 1), join_nl(Tail(lines)))

(***************************************************************************)
(* json.load and json.dumps(indent=4), for the JSON texts of the model:    *)
(* numbers written with the digit 1, arrays (nested at will), whitespace.  *)
(* Any other character makes the text malformed in the model, so the files *)
(* of the model hold no other JSON syntax (strings, objects, signs).       *)
(***************************************************************************)
Tok(t, n) == [t |-> t, n |-> n]

RECURSIVE json_tokens(_)
json_tokens(text) ==
    IF text = <<>> THEN <<>>
    ELSE LET c == text[1].c
             n == text[1].n
             more == json_tokens(Tail(text))
         IN  IF c \in {32, 10, 13, 9} THEN more
             ELSE IF c = 49 THEN <<Tok("num", n)>> \o more
             ELSE IF c = 91 THEN [i \in 1..n |-> Tok("[", 0)] \o more
             ELSE IF c = 93 THEN [i \in 1..n |-> Tok("]", 0)] \o more
             ELSE IF c = 44 THEN [i \in 1..n |-> Tok(",", 0)] \o more
             ELSE <<Tok("bad", 0)>> \o more

ParseFail == [ok |-> FALSE, val |-> <<>>, rest |-> <<>>]

RECURSIVE parse_value(_), parse_elems(_, _)
parse_value(toks) ==
    IF toks = <<>> THEN ParseFail
    ELSE IF toks[1].t = "num"
         THEN [ok |-> TRUE, val |-> <<"num", toks[1].n>>, rest |-> Tail(toks)]
    ELSE IF toks[1].t = "["
         THEN IF Len(toks) >= 2 /\ toks[2].t = "]"
              THEN [ok |-> TRUE, val |-> <<"arr", <<>>>>, rest |-> Tail(Tail(toks))]
              ELSE parse_elems(Tail(toks), <<>>)
    ELSE ParseFail

parse_elems(toks, acc) ==
    LET r == parse_value(toks) IN
    IF ~r.ok \/ r.rest = <<>> THEN ParseFail
    ELSE IF r.rest[1].t = "," THEN parse_elems(Tail(r.rest), Append(acc, r.val))
    ELSE IF r.rest[1].t = "]"
         THEN [ok |-> TRUE, val |-> <<"arr", Append(acc, r.val)>>, rest |-> Tail(r.rest)]
    ELSE ParseFail

json_loads(text) ==
    LET r == parse_value(json_tokens(text))
    IN  [ok |-> r.ok /\ r.rest = <<>>, val |-> r.val]

RECURSIVE dump_lines(_), dump_items(_)
\* The lines of json.dumps(val, indent=4).
dump_lines(val) ==
    IF val[1] = "num" THEN <<Emit(<<>>, 49, val[2])>>
    ELSE IF val[2] = <<>> THEN <<Emit(Emit(<<>>, 91, 1), 93, 1)>>
    ELSE <<Emit(<<>>, 91, 1)>> \o dump_items(val[2]) \o <<Emit(<<>>, 93, 1)>>

dump_items(items) ==
    IF items = <<>> THEN <<>>
    ELSE LET ls == dump_lines(items[1])
             indented == [i \in 1..Len(ls) |-> Cat(Emit(<<>>, 32, 4), ls[i])]
             closed == IF Len(items) = 1 THEN indented
                       ELSE [indented EXCEPT ![Len(ls)] = Emit(indented[Len(ls)], 44, 1)]
         IN  closed \o dump_items(Tail(items))

json_dumps(val) == join_nl(dump_lines(val))

(***************************************************************************)
(* read_file_content                                                       *)
(***************************************************************************)
\* The try block of read_file_content: the value returned, or raised = TRUE
\* when an exception leaves the block.
Return(v) == [raised |-> FALSE, value |-> v]
Raise == [raised |-> TRUE, value |-> <<>>]

\* json.load(f), json.dumps(content, indent=4), splitlines()
load_json(content) ==
    IF ~content.ok THEN Raise ELSE Return(splitlines(json_dumps(content.val)))

\* f.read() decoded: as JSON, or split in lines.
read_text(text, as_json) ==
    IF text = DecodeError THEN Raise
    ELSE IF as_json THEN load_json(json_loads(text))
    ELSE Return(splitlines(text))

open_and_read(file, as_json) ==
    IF file.err THEN Raise ELSE read_text(utf8_decode(file.bytes, <<>>), as_json)

read_file_content_try(name, file) ==
    IF endswith(name, S_json) THEN open_and_read(file, TRUE)
    ELSE IF is_text_file(file) THEN open_and_read(file, FALSE)
    ELSE Return(None)

\* except Exception: log, return [].
caught_as_empty(r) == IF r.raised THEN <<>> ELSE r.value

read_file_content(name, file) == caught_as_empty(read_file_content_try(name, file))

(***************************************************************************)
(* difflib.unified_diff(old, new, fromfile, tofile, lineterm='')           *)
(* Indices are Python's (from 0); a[i] of Python is a[i+1] here.           *)
(* SequenceMatcher's "popular element" heuristic applies to sequences of   *)
(* 200 lines and more, which the model does not hold.                      *)
(***************************************************************************)
Max(x, y) == IF x >= y THEN x ELSE y
Min(x, y) == IF x <= y THEN x ELSE y

RECURSIVE RunLen(_, _, _, _, _, _)
\* j2len[j] once a[i] is handled: the length of the common run that ends at
\* a[i], b[j] inside the window.
RunLen(a, b, i, j, alo, blo) ==
    IF i < alo \/ j < blo THEN 0
    ELSE IF a[i + 1] # b[j + 1] THEN 0
    ELSE 1 + RunLen(a, b, i - 1, j - 1, alo, blo)

Block(i, j, k) == [a |-> i, b |-> j, size |-> k]

\* Of the ends e = <<i, j>> of common runs, k[e] their lengths, the longest
\* run; of the longest, the one the scan meets first (i ascending, then j).
first_longest(hits, k) ==
    CHOOSE e \in hits :
        \A f \in hits :
            \/ k[f] < k[e]
            \/ k[f] = k[e] /\ (e[1] < f[1] \/ (e[1] = f[1] /\ e[2] <= f[2]))

block_ending(e, k) == Block(e[1] - k[e] + 1, e[2] - k[e] + 1, k[e])

longest_of(k, alo, blo) ==
    IF \A e \in DOMAIN k : k[e] = 0 THEN Block(alo, blo, 0)
    ELSE block_ending(first_longest({e \in DOMAIN k : k[e] > 0}, k), k)

\* The longest common block of a[alo:ahi] and b[blo:bhi].
find_longest_match(a, b, alo, ahi, blo, bhi) ==
    longest_of([e \in (alo..(ahi - 1)) \X (blo..(bhi - 1)) |->
                    RunLen(a, b, e[1], e[2], alo, blo)], alo, blo)

RECURSIVE matching_blocks_in(_, _, _, _, _, _), around(_, _, _, _, _, _, _)
matching_blocks_in(a, b, alo, ahi, blo, bhi) ==
    around(a, b, alo, ahi, blo, bhi, find_longest_match(a, b, alo, ahi, blo, bhi))

\* The block m, the blocks to its left and the blocks to its right.
around(a, b, alo, ahi, blo, bhi, m) ==
    IF m.size = 0 THEN <<>>
    ELSE (IF alo < m.a /\ blo < m.b
          THEN matching_blocks_in(a, b, alo, m.a, blo, m.b) ELSE <<>>)
         \o <<m>>
         \o (IF m.a + m.size < ahi /\ m.b + m.size < bhi
             THEN matching_blocks_in(a, b, m.a + m.size, ahi, m.b + m.size, bhi)
             ELSE <<>>)

RECURSIVE collapse(_, _)
\* Adjacent blocks become one.
collapse(blocks, cur) ==
    IF blocks = <<>> THEN (IF cur.size > 0 THEN <<cur>> ELSE <<>>)
    ELSE LET m == blocks[1] IN
         IF cur.a + cur.size = m.a /\ cur.b + cur.size = m.b
         THEN collapse(Tail(blocks), Block(cur.a, cur.b, cur.size + m.size))
         ELSE (IF cur.size > 0 THEN <<cur>> ELSE <<>>) \o collapse(Tail(blocks), m)

get_matching_blocks(a, b) ==
    Append(collapse(matching_blocks_in(a, b, 0, Len(a), 0, Len(b)), Block(0, 0, 0)),
           Block(Len(a), Len(b), 0))

Op(tag, i1, i2, j1, j2) == [tag |-> tag, i1 |-> i1, i2 |-> i2, j1 |-> j1, j2 |-> j2]

RECURSIVE opcodes_from(_, _, _)
opcodes_from(blocks, i, j) ==
    IF blocks = <<>> THEN <<>>
    ELSE LET m == blocks[1]
             change == IF i < m.a /\ j < m.b THEN <<Op("replace", i, m.a, j, m.b)>>
                       ELSE IF i < m.a THEN <<Op("delete", i, m.a, j, m.b)>>
                       ELSE IF j < m.b THEN <<Op("insert", i, m.a, j, m.b)>>
                       ELSE <<>>
             same == IF m.size > 0
                     THEN <<Op("equal", m.a, m.a + m.size, m.b, m.b + m.size)>>
                     ELSE <<>>
         IN  change \o same \o opcodes_from(Tail(blocks), m.a + m.size, m.b + m.size)

get_opcodes(a, b) == opcodes_from(get_matching_blocks(a, b), 0, 0)

\* The context lines of a hunk: unified_diff's default n.
difflib_n == 3

RECURSIVE groups_from(_, _)
groups_from(codes, group) ==
    IF codes = <<>>
    THEN (IF group # <<>> /\ ~(Len(group) = 1 /\ group[1].tag = "equal")
          THEN <<group>> ELSE <<>>)
    ELSE LET c == codes[1] IN
         IF c.tag = "equal" /\ c.i2 - c.i1 > difflib_n + difflib_n
         THEN <<Append(group, Op("equal", c.i1, Min(c.i2, c.i1 + difflib_n),
                                          c.j1, Min(c.j2, c.j1 + difflib_n)))>>
              \o groups_from(Tail(codes),
                             <<Op("equal", Max(c.i1, c.i2 - difflib_n), c.i2,
                                           Max(c.j1, c.j2 - difflib_n), c.j2)>>)
         ELSE groups_from(Tail(codes), Append(group, c))

\* The first and the last group keep at most n lines of context.
fix_leading(codes) ==
    IF codes[1].tag = "equal"
    THEN [codes EXCEPT ![1] = Op("equal", Max(@.i1, @.i2 - difflib_n), @.i2,
                                          Max(@.j1, @.j2 - difflib_n), @.j2)]
    ELSE codes

fix_trailing(codes) ==
    IF codes[Len(codes)].tag = "equal"
    THEN [codes EXCEPT ![Len(codes)] = Op("equal", @.i1, Min(@.i2, @.i1 + difflib_n),
                                                   @.j1, Min(@.j2, @.j1 + difflib_n))]
    ELSE codes

or_one_equal(codes) == IF codes = <<>> THEN <<Op("equal", 0, 1, 0, 1)>> ELSE codes

get_grouped_opcodes(a, b) ==
    groups_from(fix_trailing(fix_leading(or_one_equal(get_opcodes(a, b)))), <<>>)

(***************************************************************************)
(* A line of the diff text is kept in parts: its marker ("---", "+++",     *)
(* "@@", "-", "+" or " "), the line of content that follows a "-", "+" or  *)
(* " ", the file name of a "---"/"+++" line and the two ranges of an "@@"  *)
(* line, each <<beginning, length>> as _format_range_unified prints them.  *)
(***************************************************************************)
DiffLine(tag, text, name, ranges) ==
    [tag |-> tag, text |-> text, name |-> name, ranges |-> ranges]

format_range_unified(start, stop) ==
    LET length == stop - start
    IN  IF length = 0 THEN <<start, 0>> ELSE <<start + 1, length>>

Slice(s, lo, hi) == SubSeq(s, lo + 1, hi)

Marked(tag, ls) == [i \in 1..Len(ls) |-> DiffLine(tag, ls[i], <<>>, <<>>)]

RECURSIVE group_lines_additions(_, _, _)
\* The lines of a group without the "-" lines of what it replaces or deletes.
group_lines_additions(a, b, group) ==
    IF group = <<>> THEN <<>>
    ELSE LET c == group[1]
             here == IF c.tag = "equal" THEN Marked(" ", Slice(a, c.i1, c.i2))
                     ELSE IF c.tag \in {"replace", "insert"}
                          THEN Marked("+", Slice(b, c.j1, c.j2)) ELSE <<>>
         IN  here \o group_lines_additions(a, b, Tail(group))

RECURSIVE group_lines(_, _, _)
group_lines(a, b, group) ==
    IF group = <<>> THEN <<>>
    ELSE LET c == group[1]
             here == IF c.tag = "equal" THEN Marked(" ", Slice(a, c.i1, c.i2))
                     ELSE (IF c.tag \in {"replace", "delete"}
                           THEN Marked("-", Slice(a, c.i1, c.i2)) ELSE <<>>)
                          \o (IF c.tag \in {"replace", "insert"}
                              THEN Marked("+", Slice(b, c.j1, c.j2)) ELSE <<>>)
         IN  here \o group_lines(a, b, Tail(group))

RECURSIVE hunks(_, _, _)
hunks(a, b, groups) ==
    IF groups = <<>> THEN <<>>
    ELSE LET g == groups[1]
             first == g[1]
             lst == g[Len(g)]
         IN  <<DiffLine("@@", <<>>, <<>>,
                        <<format_range_unified(first.i1, lst.i2),
                          format_range_unified(first.j1, lst.j2)>>)>>
             \o group_lines(a, b, g)
             \o hunks(a, b, Tail(groups))

unified_diff(a, b, file_name) ==
    LET groups == get_grouped_opcodes(a, b)
    IN  IF groups = <<>> THEN <<>>
        ELSE <<DiffLine("---", <<>>, <<"before_">> \o file_name, <<>>),
               DiffLine("+++", <<>>, <<"after_">> \o file_name, <<>>)>>
             \o hunks(a, b, groups)

(***************************************************************************)
(* Dicts                                                                   *)
(***************************************************************************)
Put(d, k, v) == [x \in DOMAIN d \cup {k} |-> IF x = k THEN v ELSE d[x]]
Pop(d, k) == [x \in DOMAIN d \ {k} |-> d[x]]
Get(d, k, default) == IF k \in DOMAIN d THEN d[k] ELSE default
EmptyDict == [x \in {} |-> 0]

(***************************************************************************)
(* FindFilesHandler                                                        *)
(***************************************************************************)
modification_threshold == 5

\* A directory entry os.listdir returns: a directory, or a regular file with
\* what open() finds when initialize_content reads it.
DirEntry(isfile, file) == [isfile |-> isfile, file |-> file]

\* A test of the log-file pattern that no name passes.
IsLogFile_never(file_name) == FALSE

IsLogFile(file_name) == startswith(file_name, S_FileMonitor) /\ endswith(file_name, S_log)

\* An initialize_content that caches every regular file of the directory,
\* the log files among them.
initialize_content_all(listing, t) ==
    LET kept == {n \in DOMAIN listing : listing[n].isfile}
    IN  [fc |-> [n \in kept |-> read_file_content(n, listing[n].file)],
         lm |-> [n \in kept |-> t]]

\* initialize_content: listing is the directory, a dict name -> DirEntry.
initialize_content(listing, t) ==
    LET kept == {n \in DOMAIN listing : listing[n].isfile /\ ~IsLogFile(n)}
    IN  [fc |-> [n \in kept |-> read_file_content(n, listing[n].file)],
         lm |-> [n \in kept |-> t]]

Mail(subject, file_name, text, diff_content) ==
    [subject |-> subject, name |-> file_name, text |-> text, diff |-> diff_content]

\* send_email: one attempt on the transport; ok is whether the transport
\* accepts it. A transport error is caught and logged inside.
send_email_raises(ok) == [raised |-> ~ok, attempts |-> 1, delivered |-> ok]

send_email(ok) == [raised |-> FALSE, attempts |-> 1, delivered |-> ok]

\* The debounce test of a "modified" event.
within_threshold_strict(current_time, last_time) ==
    current_time - last_time < modification_threshold

within_threshold(current_time, last_time) ==
    current_time - last_time <= modification_threshold

\* What one call of process_file did.
Outcome(fc, lm, outcome, mails, sent, read, old, raised) ==
    [fc |-> fc, lm |-> lm, outcome |-> outcome, mails |-> mails, sent |-> sent,
     read |-> read, old |-> old, raised |-> raised]

\* '\n'.join(new_content), kept as the lines it joins.
Plain(lines) == Marked("", lines)

\* A "created" branch under the debounce of the "modified" branch.
created_debounced(file_name, content, m, t) ==
    IF within_threshold(t, Get(last_modified_files, file_name, 0))
    THEN Outcome(file_content, last_modified_files, "suppressed",
                 <<>>, <<>>, <<>>, <<>>, FALSE)
    ELSE Outcome(Put(file_content, file_name, content),
                 Put(last_modified_files, file_name, t),
                 "processed",
                 <<Mail("File Created", file_name,
                        IF content = None THEN "new binary file" ELSE "new text file",
                        <<>>)>>,
                 <<m.delivered>>, <<content>>, <<>>, m.raised)

\* A "created" branch that caches the lines and leaves the time as it was.
created_untimed(file_name, content, m, t) ==
    Outcome(Put(file_content, file_name, content),
            last_modified_files,
            "processed",
            <<Mail("File Created", file_name,
                   IF content = None THEN "new binary file" ELSE "new text file",
                   <<>>)>>,
            <<m.delivered>>, <<content>>, <<>>, m.raised)

\* The branch of a "created" event.
created(file_name, content, m, t) ==
    Outcome(Put(file_content, file_name, content),
            Put(last_modified_files, file_name, t),
            "processed",
            <<Mail("File Created", file_name,
                   IF content = None THEN "new binary file" ELSE "new text file",
                   <<>>)>>,
            <<m.delivered>>, <<content>>, <<>>, m.raised)

\* A mail of a modification that diffs against cached lines whatever the
\* new content is.
modified_mail_diffs_binary(file_name, new_content, old_content) ==
    IF old_content # None
    THEN Mail("File Modified", file_name, "Changes in",
              unified_diff(old_content, new_content, file_name))
    ELSE IF new_content = None
    THEN Mail("Binary File Modified", file_name, "binary file, no diff", <<>>)
    ELSE Mail("File Modified", file_name, "Changes in", Plain(new_content))

\* A mail of a modification that diffs new text against no lines when the
\* cache holds none.
modified_mail_diffs_empty(file_name, new_content, old_content) ==
    IF new_content = None
    THEN Mail("Binary File Modified", file_name, "binary file, no diff", <<>>)
    ELSE Mail("File Modified", file_name, "Changes in",
              unified_diff(IF old_content = None THEN <<>> ELSE old_content,
                           new_content, file_name))

modified_mail(file_name, new_content, old_content) ==
    IF new_content = None
    THEN Mail("Binary File Modified", file_name, "binary file, no diff", <<>>)
    ELSE Mail("File Modified", file_name, "Changes in",
              IF old_content = None THEN Plain(new_content)
              ELSE unified_diff(old_content, new_content, file_name))

\* A "modified" branch that notifies and leaves the cached lines as they were.
modified_stale(file_name, new_content, old_content, m, current_time) ==
    Outcome(file_content,
            Put(last_modified_files, file_name, current_time),
            "processed",
            <<modified_mail(file_name, new_content, old_content)>>,
            <<m.delivered>>, <<new_content>>, <<old_content>>, m.raised)

\* A "modified" branch that caches the lines and leaves the time as it was.
modified_untimed(file_name, new_content, old_content, m, current_time) ==
    Outcome(IF m.raised THEN file_content
            ELSE Put(file_content, file_name, new_content),
            last_modified_files,
            "processed",
            <<modified_mail(file_name, new_content, old_content)>>,
            <<m.delivered>>, <<new_content>>, <<old_content>>, m.raised)

\* The branch of a "modified" event past the threshold: the cache is
\* updated after send_email returns.
modified(file_name, new_content, old_content, m, current_time) ==
    Outcome(IF m.raised THEN file_content
            ELSE Put(file_content, file_name, new_content),
            IF m.raised THEN last_modified_files
            ELSE Put(last_modified_files, file_name, current_time),
            "processed",
            <<modified_mail(file_name, new_content, old_content)>>,
            <<m.delivered>>, <<new_content>>, <<old_content>>, m.raised)

\* A "deleted" branch that forgets the lines and keeps the time.
deleted_keeps_time(file_name, m) ==
    Outcome(Pop(file_content, file_name), last_modified_files,
            "processed",
            <<Mail("File Deleted", file_name, "has been deleted", <<>>)>>,
            <<m.delivered>>, <<>>, <<>>, m.raised)

\* A "deleted" branch that pops nothing.
deleted_keeps_all(file_name, m) ==
    Outcome(file_content, last_modified_files,
            "processed",
            <<Mail("File Deleted", file_name, "has been deleted", <<>>)>>,
            <<m.delivered>>, <<>>, <<>>, m.raised)

\* A "deleted" branch that hands its mail to the transport a second time
\* when the first attempt fails.
deleted_retry(file_name, m) ==
    Outcome(IF m.raised THEN file_content ELSE Pop(file_content, file_name),
            IF m.raised THEN last_modified_files ELSE Pop(last_modified_files, file_name),
            "processed",
            IF m.delivered
            THEN <<Mail("File Deleted", file_name, "has been deleted", <<>>)>>
            ELSE <<Mail("File Deleted", file_name, "has been deleted", <<>>),
                   Mail("File Deleted", file_name, "has been deleted", <<>>)>>,
            IF m.delivered THEN <<TRUE>> ELSE <<FALSE, FALSE>>,
            <<>>, <<>>, m.raised)

\* A "deleted" branch that notifies only for a name the cache holds.
deleted_if_cached(file_name, m) ==
    IF file_name \notin DOMAIN file_content
    THEN Outcome(file_content, last_modified_files, "processed",
                 <<>>, <<>>, <<>>, <<>>, FALSE)
    ELSE Outcome(IF m.raised THEN file_content ELSE Pop(file_content, file_name),
                 IF m.raised THEN last_modified_files
                 ELSE Pop(last_modified_files, file_name),
                 "processed",
                 <<Mail("File Deleted", file_name, "has been deleted", <<>>)>>,
                 <<m.delivered>>, <<>>, <<>>, m.raised)

\* The branch of a "deleted" event: the entries are popped after send_email
\* returns.
deleted(file_name, m) ==
    Outcome(IF m.raised THEN file_content ELSE Pop(file_content, file_name),
            IF m.raised THEN last_modified_files ELSE Pop(last_modified_files, file_name),
            "processed",
            <<Mail("File Deleted", file_name, "has been deleted", <<>>)>>,
            <<m.delivered>>, <<>>, <<>>, m.raised)

Unchanged(outcome) ==
    Outcome(file_content, last_modified_files, outcome, <<>>, <<>>, <<>>, <<>>, FALSE)

\* A skipping branch that restarts the window at each skipped event.
skipping_touch(file_name, current_time) ==
    Outcome(file_content, Put(last_modified_files, file_name, current_time),
            "suppressed", <<>>, <<>>, <<>>, <<>>, FALSE)

\* The branch of a "modified" event within the threshold: log and return.
skipping(file_name, current_time) == Unchanged("suppressed")

\* The statements of process_file under its try; event is
\* [name, is_directory], file what open() finds, ok the transport's answer,
\* t the clock. raised: an exception left the statements.
process_file_try(event, action, file, ok, t) ==
    IF event.is_directory THEN Unchanged("filtered")
    ELSE IF IsLogFile(event.name) THEN Unchanged("filtered")
    ELSE IF action = "created"
    THEN created(event.name, read_file_content(event.name, file), send_email(ok), t)
    ELSE IF action = "modified"
    THEN IF within_threshold(t, Get(last_modified_files, event.name, 0))
         THEN skipping(event.name, t)
         ELSE modified(event.name, read_file_content(event.name, file),
                       Get(file_content, event.name, None), send_email(ok), t)
    ELSE IF action = "deleted" THEN deleted(event.name, send_email(ok))
    ELSE Unchanged("filtered")

\* An exception leaves the callback when open() or the transport fails.
uncaught(r, file, ok) ==
    [r EXCEPT !.raised = (r.read # <<>> /\ file.err) \/ (r.sent # <<>> /\ ~ok)]

\* process_file with no handler on the way, neither its own nor those of
\* read_file_content, is_text_file and send_email.
process_file_unprotected(event, action, file, ok, t) ==
    uncaught(process_file_try(event, action, file, ok, t), file, ok)

\* except Exception: log; nothing leaves the callback.
logged(r) == [r EXCEPT !.raised = FALSE]

process_file(event, action, file, ok, t) ==
    logged(process_file_try(event, action, file, ok, t))

(***************************************************************************)
(* The environment: the files open() may find, the directory at startup,   *)
(* the seconds between two events.                                         *)
(***************************************************************************)
F_ab   == File(<<Run(97, 1), Run(10, 1), Run(98, 1)>>)                \* "a\nb"
F_aba  == File(<<Run(97, 1), Run(10, 1), Run(98, 1), Run(10, 1), Run(97, 1)>>)
F_bin  == File(<<Run(255, 1), Run(97, 1)>>)                           \* "\xffa"
F_late == File(<<Run(97, ChunkSize), Run(255, 1)>>)                   \* "a"*1024 + "\xff"
F_json == File(<<Run(91, 1), Run(49, 1), Run(93, 1)>>)                \* "[1]"

DiskFiles == {F_ab, F_bin, F_late, F_json, Unreadable}

\* The names of the model that are the program's own log files.
LogArtifacts == {Name_log}

\* What the path of a name is when it exists: sub is a directory, the
\* others are regular files.
IsDirectory(name) == name = Name_sub

\* Any clock value above the threshold: time.time() counts from 1970.
StartTime == 6

\* The events one run may see. A run draws its events from one environment:
\* the names they are about, the files open() may find, the seconds between
\* two events, the answers of the mail transport (TRUE: the mail is taken),
\* and how many events the run has.
MaxEventsTiming == 3
MaxEventsContents == 2
MaxEventsFilter == 2

Environment(names, files, delays, answers, max) ==
    [names |-> names, files |-> files, delays |-> delays, answers |-> answers,
     max |-> max]

Environments ==
    { Environment({Name_a}, {F_ab, F_aba}, {1, 5, 6}, {TRUE}, MaxEventsTiming),
      Environment({Name_a, Name_b}, DiskFiles, {6}, BOOLEAN, MaxEventsContents),
      Environment({Name_a, Name_log, Name_sub}, {F_ab, F_bin}, {1, 6}, {TRUE},
                  MaxEventsFilter) }

\* The directories initialize_content may list in an environment.
Listings(e) ==
    UNION {{l \in [D -> {DirEntry(FALSE, Unreadable)} \cup {DirEntry(TRUE, f) : f \in e.files}] :
               \A n \in D : l[n].isfile = ~IsDirectory(n)}
           : D \in SUBSET e.names}

NoScenario ==
    [stage |-> 0, name |-> <<>>, t1 |-> 0, c0 |-> <<>>, c1 |-> <<>>, c2 |-> <<>>,
     c3 |-> <<>>, diff3 |-> <<>>]

\* Of a name: mod, the time of its last notified "modified" (0: none yet);
\* del and cre, whether a "deleted", a "created" of the name was processed
\* since then; gone, what the cache held for it when it was last deleted;
\* prev, the time of the notified "modified" before that of mod, and
\* prevdel, whether a "deleted" of the name was processed between the two;
\* born, the time its entry was made by initialize_content or by a
\* "created" (0: never), and borndel, whether a "deleted" of the name was
\* processed since.
NoHistory ==
    [mod |-> 0, del |-> FALSE, cre |-> FALSE, gone |-> <<>>,
     prev |-> 0, prevdel |-> FALSE, born |-> 0, borndel |-> FALSE]

Idle == [spec |-> "events"]

\* The send or the read of a dispatch failed.
Failed(r, file) == (r.sent # <<>> /\ ~r.sent[1]) \/ (r.read # <<>> /\ file.err)

\* What is kept of a dispatch: the event, what became of it, the file it
\* opened, the subject and the text of each mail handed to the transport,
\* whether the transport took it, and whether the dispatch before failed.
Record(kind, event, file, r) ==
    [kind |-> kind, name |-> event.name, is_directory |-> event.is_directory,
     outcome |-> r.outcome,
     opened |-> IF r.read = <<>> THEN <<>> ELSE <<file>>,
     subjects |-> [i \in 1..Len(r.mails) |-> r.mails[i].subject],
     texts |-> [i \in 1..Len(r.mails) |-> r.mails[i].text],
     sent |-> r.sent,
     failed |-> Failed(r, file),
     after_failure |-> last.failed]

NoDispatch ==
    [kind |-> "init", name |-> <<>>, is_directory |-> FALSE,
     outcome |-> "processed", opened |-> <<>>, subjects |-> <<>>,
     texts |-> <<>>, sent |-> <<>>, failed |-> FALSE, after_failure |-> FALSE]

Started(e, listing, c) ==
    /\ env = e
    /\ now = StartTime
    /\ file_content = c.fc
    /\ last_modified_files = c.lm
    /\ alive = TRUE
    /\ nEvents = 0
    /\ last = NoDispatch
    /\ hist = [n \in Names |->
                  IF n \in DOMAIN listing /\ listing[n].isfile /\ n \notin LogArtifacts
                  THEN [NoHistory EXCEPT !.born = StartTime] ELSE NoHistory]
    /\ seeded = {n \in DOMAIN listing : listing[n].isfile} \ LogArtifacts
    /\ scn = NoScenario
    /\ pure = Idle

\* The state once FindFilesHandler(directory) is constructed.
Init ==
    \E e \in Environments : \E listing \in Listings(e) :
        Started(e, listing, initialize_content(listing, StartTime))

\* The history of the event's name after the dispatch.
histNext(action, event, r, t) ==
    IF r.outcome # "processed" THEN hist
    ELSE IF action = "modified"
         THEN [hist EXCEPT ![event.name] =
                  [@ EXCEPT !.mod = t, !.del = FALSE, !.cre = FALSE,
                            !.prev = hist[event.name].mod,
                            !.prevdel = hist[event.name].del]]
    ELSE IF action = "deleted"
         THEN [hist EXCEPT ![event.name] =
                  [@ EXCEPT !.del = (@ \/ hist[event.name].mod # 0),
                            !.borndel = (@ \/ hist[event.name].born # 0),
                            !.gone = IF event.name \in DOMAIN file_content
                                     THEN <<file_content[event.name]>> ELSE <<>>]]
    ELSE [hist EXCEPT ![event.name] =
             [@ EXCEPT !.cre = (@ \/ hist[event.name].mod # 0),
                       !.born = t, !.borndel = FALSE]]

seededNext(action, event, r) ==
    IF r.outcome # "processed" THEN seeded
    ELSE IF action = "created" THEN seeded \cup {event.name}
    ELSE IF action = "deleted" THEN seeded \ {event.name}
    ELSE seeded

\* The scenario: a "modified" of a name is processed at t1, the next event of
\* the name is a "modified" at t1 + 1 that is suppressed (c2 is what it would
\* have read), the next a "modified" at t1 + 6 that is processed.
scnNext(action, event, file, r, t) ==
    LET f == event.name IN
    IF r.outcome = "filtered" THEN scn
    ELSE IF action = "modified" /\ r.outcome = "suppressed"
            /\ scn.stage = 1 /\ scn.name = f /\ t = scn.t1 + 1
         THEN [scn EXCEPT !.stage = 2, !.c2 = <<read_file_content(f, file)>>]
    ELSE IF action = "modified" /\ r.outcome = "processed"
            /\ scn.stage = 2 /\ scn.name = f /\ t = scn.t1 + 6
         THEN [scn EXCEPT !.stage = 3, !.c3 = r.read, !.diff3 = r.mails[1].diff]
    ELSE IF action = "modified" /\ r.outcome = "processed"
         THEN [NoScenario EXCEPT !.stage = 1, !.name = f, !.t1 = t,
                                 !.c0 = <<Get(file_content, f, None)>>, !.c1 = r.read]
    ELSE IF scn.name = f THEN NoScenario
    ELSE scn

\* The callback has run: r is what it did.
handled(action, event, file, r, t) ==
    /\ now' = t
    /\ file_content' = r.fc
    /\ last_modified_files' = r.lm
    /\ alive' = ~r.raised
    /\ nEvents' = nEvents + 1
    /\ last' = Record(action, event, file, r)
    /\ hist' = histNext(action, event, r, t)
    /\ seeded' = seededNext(action, event, r)
    /\ scn' = scnNext(action, event, file, r, t)
    /\ UNCHANGED <<env, pure>>

\* The observer delivers one event, d seconds after the last, and the
\* callback runs to its end.
dispatch(action, event, file, ok, d) ==
    /\ alive
    /\ nEvents < env.max
    /\ handled(action, event, file, process_file(event, action, file, ok, now + d), now + d)

Event(name) == [name |-> name, is_directory |-> IsDirectory(name)]

on_created ==
    \E name \in env.names, file \in env.files, ok \in env.answers, d \in env.delays :
        dispatch("created", Event(name), file, ok, d)

on_modified ==
    \E name \in env.names, file \in env.files, ok \in env.answers, d \in env.delays :
        dispatch("modified", Event(name), file, ok, d)

\* The file of a "deleted" event is gone.
on_deleted ==
    \E name \in env.names, ok \in env.answers, d \in env.delays :
        dispatch("deleted", Event(name), Unreadable, ok, d)

Next == on_created \/ on_modified \/ on_deleted

Spec == Init /\ [][Next]_vars

(***************************************************************************)
(* read_file_content and unified_diff on their own: a run draws the        *)
(* arguments of one call, and the call is its one step.                    *)
(***************************************************************************)
NoEvents == Environment({}, {}, {}, {}, 0)

\* No handler runs: the one variable that moves is pure.
Parked(p) ==
    /\ env = NoEvents
    /\ now = StartTime
    /\ file_content = EmptyDict
    /\ last_modified_files = EmptyDict
    /\ alive = TRUE
    /\ nEvents = 0
    /\ last = NoDispatch
    /\ hist = [n \in Names |-> NoHistory]
    /\ seeded = {}
    /\ scn = NoScenario
    /\ pure = p

returned(out) ==
    /\ pure' = [pure EXCEPT !.out = <<out>>, !.done = TRUE]
    /\ UNCHANGED <<now, file_content, last_modified_files, alive, nEvents, last,
                   hist, seeded, scn, env>>

\* The files: up to MaxRuns runs of one byte, a run being one byte or
\* reaching to the end of the first chunk or one byte short of it.
MaxRuns == 3
ByteAlphabet == {97, 10, 49, 195, 169, 255}      \* a \n 1 0xC3 0xA9 0xFF
RunCounts == {1, ChunkSize - 1, ChunkSize}
Runs == {Run(c, n) : c \in ByteAlphabet, n \in RunCounts}
ByteStrings ==
    UNION {{bs \in [1..k -> Runs] : \A i \in 1..(k - 1) : bs[i].c # bs[i + 1].c}
           : k \in 0..MaxRuns}
GeneratedFiles == {File(bs) : bs \in ByteStrings} \cup {Unreadable}

ClassifyInit ==
    \E name \in {Name_a, Name_b}, file \in GeneratedFiles :
        Parked([spec |-> "classify", name |-> name, file |-> file,
                out |-> <<>>, done |-> FALSE])

classify ==
    /\ pure.spec = "classify"
    /\ ~pure.done
    /\ returned(read_file_content(pure.name, pure.file))

ClassifyNext == classify

ClassifySpec == ClassifyInit /\ [][ClassifyNext]_vars

\* The texts: up to MaxLines lines "a" or "b"; what follows them is a text
\* of that kind, that text with one or two lines appended, or a long text.
\* The long texts have nine lines, with their first and last line "a" or
\* "b": changes three lines of context do not join.
MaxLines == 4
Line_a == <<Run(97, 1)>>
Line_b == <<Run(98, 1)>>
Texts(k) == UNION {[1..n -> {Line_a, Line_b}] : n \in 0..k}
LongLines == 9
LongTexts ==
    {[i \in 1..LongLines |-> IF i \in ends THEN Line_b ELSE Line_a]
     : ends \in SUBSET {1, LongLines}}

DiffInit ==
    \E old \in Texts(MaxLines) \cup LongTexts :
        \E new \in (IF old \in LongTexts THEN LongTexts ELSE Texts(MaxLines))
                   \cup {old \o more : more \in Texts(2)} :
            Parked([spec |-> "diff", old |-> old, new |-> new,
                    out |-> <<>>, done |-> FALSE])

diff ==
    /\ pure.spec = "diff"
    /\ ~pure.done
    /\ returned(unified_diff(pure.old, pure.new, Name_a))

DiffNext == diff

DiffSpec == DiffInit /\ [][DiffNext]_vars

(***************************************************************************)
(* Properties                                                              *)
(***************************************************************************)
\* The last event was delivered in this step.
Delivered == nEvents' = nEvents + 1

\* The event kept in d is about a file the handler watches: no directory,
\* no log file of the program.
Watched(d) == ~d.is_directory /\ d.name \notin LogArtifacts

\* What the event kept in d opened, if it opened a file.
Opened(d) == IF d.opened = <<>> THEN Unreadable ELSE d.opened[1]

\* Seconds from the last notified "modified" of the name to this step's event.
SinceNotified == now' - hist[last'.name].mod

\* A "modified" of a watched name that has had a notified "modified" before.
ModifiedAgain ==
    /\ Delivered
    /\ last'.kind = "modified"
    /\ Watched(last')
    /\ hist[last'.name].mod # 0

\* C1 as stated: whatever the events in between, a "modified" event within
\* 5 seconds of the last notified "modified" of its name sends nothing, and
\* one more than 5 seconds after it sends a notification.
C1_AnySequence ==
    [][ModifiedAgain => (last'.subjects # <<>> <=> SinceNotified > 5)]_vars

\* C1, amended: a "modified" event of a watched name within 5 seconds of the
\* last notified "modified" of the name sends nothing unless a "deleted" of
\* the name was processed in between, and one more than 5 seconds after it
\* sends a notification unless a "created" of the name was processed in
\* between.
C1_Debounce ==
    [][ModifiedAgain =>
          /\ (last'.subjects # <<>> /\ ~hist[last'.name].del) => SinceNotified > 5
          /\ (SinceNotified > 5 /\ ~hist[last'.name].cre) => last'.subjects # <<>>]_vars

\* Three "modified" of one name: notified, skipped a second later, notified
\* six seconds after the first.
C1_Witness ==
    /\ scn.stage = 3
    /\ last.kind = "modified"
    /\ last.subjects = <<"File Modified">>
    /\ hist[last.name].mod = now
    /\ now = scn.t1 + 6

\* A "modified" event of a watched name within the threshold of the time
\* kept for the name.
Suppressed ==
    /\ Delivered
    /\ last'.kind = "modified"
    /\ Watched(last')
    /\ now' - Get(last_modified_files, last'.name, 0) <= modification_threshold

\* C2: a "modified" event the debounce suppresses sends nothing, reads no
\* file and leaves the cached lines and times of every name as they were.
C2_SuppressedIsNoOp ==
    [][Suppressed =>
          /\ last'.subjects = <<>>
          /\ last'.sent = <<>>
          /\ last'.opened = <<>>
          /\ file_content' = file_content
          /\ last_modified_files' = last_modified_files]_vars

\* A skipped "modified" whose file held other lines than the cache keeps.
C2_Witness ==
    /\ scn.stage = 2
    /\ last.kind = "modified"
    /\ last.outcome = "suppressed"
    /\ scn.name \in DOMAIN file_content
    /\ scn.c2 # <<file_content[scn.name]>>
    /\ last_modified_files[scn.name] = scn.t1

\* The three events of the scenario have happened and the lines of the
\* file were text each time.
ScenarioDone(before) ==
    /\ scn.stage = 3
    /\ before # <<None>>
    /\ scn.c3 # <<None>>

\* C3 as stated: the diff of the third event has as its old side the lines
\* the cache held before the first of the three modifications.
C3_DiffAgainstBeforeFirst ==
    ScenarioDone(scn.c0) => scn.diff3 = unified_diff(scn.c0[1], scn.c3[1], scn.name)

\* C3, amended: the diff of the third event has as its old side the lines
\* the first modification read and cached; the skipped second one leaves no
\* trace.
C3_DiffAgainstFirstRead ==
    ScenarioDone(scn.c1) => scn.diff3 = unified_diff(scn.c1[1], scn.c3[1], scn.name)

\* The scenario with the file changed by the first and by the second
\* modification, starting from cached text.
C3_Witness ==
    /\ ScenarioDone(scn.c1)
    /\ scn.c0 # <<None>>
    /\ scn.c0 # scn.c1
    /\ scn.c2 # scn.c1
    /\ scn.diff3 # <<>>

\* C4: after a "deleted" event of a watched name the name has no cached
\* lines and no cached time; after a "created" event of a watched name the
\* cached lines are what read_file_content gives for the file as it is and
\* the cached time is the time of the event.
C4_CacheLifecycle ==
    /\ (last.kind = "deleted" /\ Watched(last)) =>
          /\ last.name \notin DOMAIN file_content
          /\ last.name \notin DOMAIN last_modified_files
    /\ (last.kind = "created" /\ Watched(last)) =>
          /\ last.opened # <<>>
          /\ last.name \in DOMAIN file_content
          /\ file_content[last.name] = read_file_content(last.name, Opened(last))
          /\ last.name \in DOMAIN last_modified_files
          /\ last_modified_files[last.name] = now

\* A name created again after its deletion, with other lines than it had.
C4_Witness ==
    /\ last.kind = "created"
    /\ Watched(last)
    /\ hist[last.name].gone # <<>>
    /\ hist[last.name].gone # <<file_content[last.name]>>

\* An entry of the cache is gone after this step.
Removed(n) == n \in DOMAIN file_content /\ n \notin DOMAIN file_content'

\* C5: a name seeded at startup or by a "created" event has cached lines
\* until a "deleted" event of it is processed, and an entry leaves the cache
\* exactly when a "deleted" event of its name is processed.
C5_Membership ==
    [][/\ seeded \subseteq DOMAIN file_content
       /\ seeded' \subseteq DOMAIN file_content'
       /\ \A n \in Names :
             Removed(n) <=>
                 /\ n \in DOMAIN file_content
                 /\ Delivered
                 /\ last'.kind = "deleted"
                 /\ last'.name = n
                 /\ Watched(last')]_vars

\* A seeded name that keeps its entry through an event that failed.
C5_Witness ==
    /\ last.failed
    /\ last.kind \in {"created", "modified"}
    /\ last.name \in seeded
    /\ last.name \in DOMAIN file_content
    /\ nEvents >= 2

\* C6: the cached lines and times after an event that hands a mail to the
\* transport are those the same event leaves when the transport answers the
\* other way; a "modified" whose send fails caches the lines it read and
\* the time of the event.
C6_SendIndependent ==
    [][(Delivered /\ last'.sent # <<>>) =>
          /\ file_content' =
                 process_file(Event(last'.name), last'.kind, Opened(last'),
                              ~last'.sent[1], now').fc
          /\ last_modified_files' =
                 process_file(Event(last'.name), last'.kind, Opened(last'),
                              ~last'.sent[1], now').lm
          /\ (last'.kind = "modified" /\ last'.sent = <<FALSE>>) =>
                 /\ file_content'[last'.name] =
                        read_file_content(last'.name, Opened(last'))
                 /\ last_modified_files'[last'.name] = now']_vars

\* A "modified" whose send failed and whose new lines are cached.
C6_Witness ==
    /\ last.kind = "modified"
    /\ last.sent = <<FALSE>>
    /\ last.opened # <<>>
    /\ file_content[last.name] = read_file_content(last.name, Opened(last))
    /\ file_content[last.name] # <<>>
    /\ last_modified_files[last.name] = now

\* Every byte of the first chunk is ASCII.
AsciiChunk(file) ==
    \A i \in 1..Len(Take(file.bytes, ChunkSize)) : Take(file.bytes, ChunkSize)[i].c < 128

\* Reading the file fails: it cannot be opened, or its bytes are read and
\* are not utf-8, or it is read as JSON and is malformed.
ReadFails(name, file) ==
    \/ file.err
    \/ /\ endswith(name, S_json) \/ AsciiChunk(file)
       /\ \/ utf8_decode(file.bytes, <<>>) = DecodeError
          \/ endswith(name, S_json) /\ ~json_loads(utf8_decode(file.bytes, <<>>)).ok

\* C7 as stated: when the read of a "created" or "modified" event fails the
\* name is cached with no lines and the notification is that of a text file.
C7_ReadErrorIsEmpty ==
    (/\ last.kind \in {"created", "modified"}
     /\ last.opened # <<>>
     /\ ReadFails(last.name, Opened(last))) =>
        /\ file_content[last.name] = <<>>
        /\ last.kind = "created" =>
              last.subjects = <<"File Created">> /\ last.texts = <<"new text file">>
        /\ last.kind = "modified" => last.subjects = <<"File Modified">>

\* C8: an event whose read or send failed leaves the handler running, and
\* the events after it are delivered and handled.
C8_Isolation ==
    /\ last.failed => alive
    /\ last.after_failure => alive
    /\ (last.failed /\ nEvents < env.max) => ENABLED Next

\* An event processed, its mail sent, right after an event that failed.
C8_Witness ==
    /\ last.after_failure
    /\ ~last.failed
    /\ last.outcome = "processed"
    /\ last.sent = <<TRUE>>

\* The call of the step has returned for a file that could be opened, under
\* a name that is, or is not, one of a JSON file.
Classified(json) ==
    /\ pure.spec = "classify"
    /\ pure.done
    /\ ~pure.file.err
    /\ endswith(pure.name, S_json) = json

\* The lines of the bytes when they are utf-8, no lines when they are not.
LinesOf(text) == IF text = DecodeError THEN <<>> ELSE splitlines(text)

\* The lines json.dumps gives for the bytes when they are utf-8 and JSON, no
\* lines when they are not.
JsonLinesOf(text) ==
    IF text = DecodeError \/ ~json_loads(text).ok THEN <<>>
    ELSE splitlines(json_dumps(json_loads(text).val))

\* C9 as stated: a file with ASCII in its first 1024 bytes is text, a file
\* with a byte >= 128 anywhere is Binary, and a .json name is never Binary.
C9_AnyPosition ==
    /\ (Classified(FALSE) /\ AsciiChunk(pure.file)) => pure.out # <<None>>
    /\ (Classified(FALSE) /\ \E i \in 1..Len(pure.file.bytes) : pure.file.bytes[i].c >= 128)
          => pure.out = <<None>>
    /\ Classified(TRUE) => pure.out # <<None>>

\* C9, amended: a file that opens, under a name without the .json suffix,
\* is Binary exactly when one of its first 1024 bytes is >= 128, whatever
\* the bytes after them; when it is not Binary it yields its lines, or no
\* lines when the whole of it is not utf-8. A .json name never yields Binary.
C9_FirstChunk ==
    /\ (Classified(FALSE) /\ AsciiChunk(pure.file)) =>
          pure.out = <<LinesOf(utf8_decode(pure.file.bytes, <<>>))>>
    /\ (Classified(FALSE) /\ ~AsciiChunk(pure.file)) => pure.out = <<None>>
    /\ Classified(TRUE) =>
          pure.out = <<JsonLinesOf(utf8_decode(pure.file.bytes, <<>>))>>
    /\ (pure.spec = "classify" /\ pure.done /\ endswith(pure.name, S_json)) =>
          pure.out # <<None>>

\* A file with a two-byte character past its first 1024 bytes, read as the
\* line of text it holds.
C9_Witness ==
    /\ Classified(FALSE)
    /\ AsciiChunk(pure.file)
    /\ \E i \in 1..Len(pure.file.bytes) : pure.file.bytes[i].c >= 128
    /\ Len(pure.out[1]) = 1

\* A line of no text: what apply_diff gives when the diff does not fit.
Misfit == <<[c |-> -1, n |-> 0]>>

RECURSIVE apply_diff(_, _, _)
\* The lines a unified diff makes of old, read from line pos + 1 of old on:
\* the lines up to a hunk are kept, a " " line is kept, a "-" line is
\* dropped, a "+" line is put in.
apply_diff(old, d, pos) ==
    IF d = <<>> THEN Slice(old, pos, Len(old))
    ELSE IF d[1].tag \in {"---", "+++"} THEN apply_diff(old, Tail(d), pos)
    ELSE IF d[1].tag = "@@"
         THEN LET r == d[1].ranges[1]
                  start == IF r[2] = 0 THEN r[1] ELSE r[1] - 1
              IN  IF start < pos \/ start > Len(old) THEN <<Misfit>>
                  ELSE Slice(old, pos, start) \o apply_diff(old, Tail(d), start)
    ELSE IF d[1].tag = "+" THEN <<d[1].text>> \o apply_diff(old, Tail(d), pos)
    ELSE IF pos >= Len(old) \/ old[pos + 1] # d[1].text THEN <<Misfit>>
    ELSE IF d[1].tag = " " THEN <<old[pos + 1]>> \o apply_diff(old, Tail(d), pos + 1)
    ELSE apply_diff(old, Tail(d), pos + 1)

\* The text of the lines of a diff with the tag.
LinesTagged(d, tag) ==
    LET IsTagged(l) == l.tag = tag
        ls == SelectSeq(d, IsTagged)
    IN  [i \in 1..Len(ls) |-> ls[i].text]

\* new is old with lines after it.
Appended(old, new) == Len(new) > Len(old) /\ SubSeq(new, 1, Len(old)) = old

\* C10: the "-" and "+" lines of the diff of old and new, applied to old,
\* give new; when new is old with lines appended, the "+" lines are those
\* lines and there is no "-" line.
C10_RoundTrip ==
    (pure.spec = "diff" /\ pure.done) =>
        /\ apply_diff(pure.old, pure.out[1], 0) = pure.new
        /\ Appended(pure.old, pure.new) =>
              /\ LinesTagged(pure.out[1], "+") =
                     SubSeq(pure.new, Len(pure.old) + 1, Len(pure.new))
              /\ LinesTagged(pure.out[1], "-") = <<>>

\* The diff of a long text with its first and last line changed: two hunks,
\* each taking a line out and putting one in.
C10_Witness ==
    /\ pure.spec = "diff"
    /\ pure.done
    /\ Len(LinesTagged(pure.out[1], "@@")) = 2
    /\ Len(LinesTagged(pure.out[1], "-")) = 2
    /\ Len(LinesTagged(pure.out[1], "+")) = 2
    /\ apply_diff(pure.old, pure.out[1], 0) = pure.new

\* The time the cache keeps for the name of this step's event, 0 when it
\* keeps none.
LastSeen ==
    IF last'.name \in DOMAIN last_modified_files
    THEN last_modified_files[last'.name] ELSE 0

\* This step delivers a "modified" event of a watched name.
ModifiedDelivered == Delivered /\ last'.kind = "modified" /\ Watched(last')

\* C11: a "modified" event of a watched name is suppressed exactly when its
\* time is at most 5 seconds after the time cached for the name, taken as 0
\* when there is none; an event that is not suppressed, and so every event
\* of a name without an entry, leaves the name with the time of the event.
C11_DecisionRule ==
    [][ModifiedDelivered =>
          /\ (last'.subjects = <<>>) <=> (now' - LastSeen <= 5)
          /\ (last'.outcome = "suppressed") <=> (last'.subjects = <<>>)
          /\ last'.subjects # <<>> =>
                /\ last'.name \in DOMAIN last_modified_files'
                /\ last_modified_files'[last'.name] = now'
          /\ last'.name \notin DOMAIN last_modified_files =>
                /\ last'.subjects # <<>>
                /\ last'.name \in DOMAIN file_content'
                /\ last_modified_files'[last'.name] = now']_vars

\* A "modified" event suppressed exactly 5 seconds after the cached time.
C11_Witness ==
    /\ last.kind = "modified"
    /\ Watched(last)
    /\ last.subjects = <<>>
    /\ last.name \in DOMAIN last_modified_files
    /\ now - last_modified_files[last.name] = 5

\* C12: a "created" and a "deleted" event of a watched name always hand one
\* mail to the transport and make their change of the cache (the entry is
\* there with the time of the event, the entry is gone), however recent the
\* last event or notification of the name.
C12_AlwaysProceed ==
    /\ (last.kind = "created" /\ Watched(last)) =>
          /\ last.outcome = "processed"
          /\ last.subjects = <<"File Created">>
          /\ Len(last.sent) = 1
          /\ last.name \in DOMAIN file_content
          /\ last.name \in DOMAIN last_modified_files
          /\ last_modified_files[last.name] = now
    /\ (last.kind = "deleted" /\ Watched(last)) =>
          /\ last.outcome = "processed"
          /\ last.subjects = <<"File Deleted">>
          /\ Len(last.sent) = 1
          /\ last.name \notin DOMAIN file_content

\* A "created" event notified one second after a notified "modified" of
\* the same name.
C12_Witness ==
    /\ last.kind = "created"
    /\ last.subjects = <<"File Created">>
    /\ hist[last.name].mod # 0
    /\ hist[last.name].cre
    /\ now - hist[last.name].mod = 1

\* The base name starts with "FileMonitor_" and ends with ".log".
LogPattern(name) == startswith(name, S_FileMonitor) /\ endswith(name, S_log)

\* C13: an event of any kind about a directory, or about a name that starts
\* with "FileMonitor_" and ends with ".log", hands no mail to the transport,
\* opens no file and leaves the cached lines and times of every name as
\* they were.
C13_FilteredIsNoOp ==
    [][(Delivered /\ (last'.is_directory \/ LogPattern(last'.name))) =>
          /\ last'.subjects = <<>>
          /\ last'.sent = <<>>
          /\ last'.opened = <<>>
          /\ file_content' = file_content
          /\ last_modified_files' = last_modified_files]_vars

\* A "deleted" event of a log file, filtered while the cache holds a file.
C13_Witness ==
    /\ last.kind = "deleted"
    /\ LogPattern(last.name)
    /\ last.outcome = "filtered"
    /\ last.subjects = <<>>
    /\ DOMAIN file_content # {}

\* The mail the handler makes of the event of this step, which handed one
\* mail to the transport.
MailOfStep ==
    process_file(Event(last'.name), last'.kind, Opened(last'), last'.sent[1], now').mails[1]

\* This step delivers a "modified" event of a watched name that is not
\* suppressed.
ModifiedProcessed == ModifiedDelivered /\ last'.sent # <<>>

\* C14: a "modified" event that is processed and whose file is Binary hands
\* one mail "Binary File Modified" to the transport, with no diff whatever
\* the cache held, and leaves the name cached as Binary with the time of the
\* event.
C14_BinaryModified ==
    [][(ModifiedProcessed /\ read_file_content(last'.name, Opened(last')) = None) =>
          /\ last'.subjects = <<"Binary File Modified">>
          /\ last'.texts = <<"binary file, no diff">>
          /\ Len(last'.sent) = 1
          /\ MailOfStep.subject = "Binary File Modified"
          /\ MailOfStep.diff = <<>>
          /\ file_content'[last'.name] = None
          /\ last_modified_files'[last'.name] = now']_vars

\* A file cached with lines of text and modified into a binary file.
C14_Witness ==
    /\ scn.stage = 1
    /\ scn.c1 = <<None>>
    /\ scn.c0 # <<None>>
    /\ scn.c0 # <<<<>>>>
    /\ last.kind = "modified"
    /\ last.subjects = <<"Binary File Modified">>
    /\ file_content[scn.name] = None
    /\ last_modified_files[scn.name] = now

\* The lines the cache holds for the name of this step's event before the
\* step: None when it holds the Binary sentinel and when it holds no entry.
CachedLines ==
    IF last'.name \in DOMAIN file_content THEN file_content[last'.name] ELSE None

\* What the event of this step read.
ReadLines == read_file_content(last'.name, Opened(last'))

\* The diff is the lines, one for one, under no tag.
Unmarked(d, lines) ==
    /\ Len(d) = Len(lines)
    /\ \A i \in 1..Len(d) : d[i].tag = "" /\ d[i].text = lines[i]

\* C15: a processed "modified" event that reads text sends "File Modified";
\* when the cache holds no lines for the name (no entry, or Binary) the body
\* carries the new lines as they are, without headers or markers, and when
\* it holds lines (even none) the body carries their unified diff.
C15_NoOldText ==
    [][(ModifiedProcessed /\ ReadLines # None) =>
          /\ last'.subjects = <<"File Modified">>
          /\ MailOfStep.subject = "File Modified"
          /\ CachedLines = None => Unmarked(MailOfStep.diff, ReadLines)
          /\ CachedLines # None =>
                /\ MailOfStep.diff = unified_diff(CachedLines, ReadLines, last'.name)
                /\ \A i \in 1..Len(MailOfStep.diff) : MailOfStep.diff[i].tag # ""]_vars

\* A file cached as Binary since startup and modified into two lines of text.
C15_Witness ==
    /\ scn.stage = 1
    /\ scn.c0 = <<None>>
    /\ scn.c1 # <<None>>
    /\ Len(scn.c1[1]) = 2
    /\ hist[scn.name].born = StartTime
    /\ ~hist[scn.name].borndel
    /\ last.subjects = <<"File Modified">>

\* C16: a "created", a "deleted" and a processed "modified" event of a
\* watched name hand exactly one mail to the transport, a filtered and a
\* suppressed event none, whether or not the transport failed at this event
\* or at the one before.
C16_OneAttempt ==
    /\ (last.kind \in {"created", "deleted"} /\ Watched(last)) =>
          Len(last.sent) = 1 /\ Len(last.subjects) = 1
    /\ (last.kind = "modified" /\ Watched(last)) =>
          /\ last.outcome \in {"processed", "suppressed"}
          /\ last.outcome = "processed" => Len(last.sent) = 1 /\ Len(last.subjects) = 1
          /\ last.outcome = "suppressed" => last.sent = <<>> /\ last.subjects = <<>>
    /\ (last.kind # "init" /\ ~Watched(last)) =>
          last.sent = <<>> /\ last.subjects = <<>>

\* Two events in a row whose one attempt on the transport failed.
C16_Witness ==
    /\ last.after_failure
    /\ last.failed
    /\ last.sent = <<FALSE>>
    /\ last.kind = "deleted"

\* C17: of two "modified" notifications of a name that follow each other,
\* with no "deleted" of the name processed between them, the second is for
\* an event more than 5 seconds after the first; so are any two with no
\* "deleted" between them, the clock never going back. Two that are 5
\* seconds or less apart have a "deleted" of the name between them.
C17_Spacing ==
    \A n \in Names :
        hist[n].prev # 0 =>
            /\ ~hist[n].prevdel => hist[n].mod - hist[n].prev > 5
            /\ hist[n].mod - hist[n].prev <= 5 => hist[n].prevdel

\* Two "modified" notifications of a name two seconds apart, the name
\* deleted between them.
C17_Witness ==
    \E n \in Names :
        /\ hist[n].prev # 0
        /\ hist[n].prevdel
        /\ hist[n].mod - hist[n].prev = 2
        /\ last.kind = "modified"
        /\ last.name = n
        /\ last.subjects # <<>>

\* This step delivers a "modified" event of a watched name 5 seconds or
\* less after the entry of the name was made, at startup or by a "created".
ModifiedSoonAfterBirth ==
    /\ ModifiedDelivered
    /\ hist[last'.name].born # 0
    /\ now' - hist[last'.name].born <= 5

\* C18 as stated: a "modified" event 5 seconds or less after the "created"
\* event of its name, or after startup seeded the name, is suppressed and
\* leaves the cache as it was.
C18_WindowFromBirth ==
    [][ModifiedSoonAfterBirth =>
          /\ last'.subjects = <<>>
          /\ file_content' = file_content
          /\ last_modified_files' = last_modified_files]_vars

\* C18, amended: a "modified" event 5 seconds or less after the "created"
\* event of its name, or after startup seeded the name, with no "deleted"
\* of the name processed in between, is suppressed and leaves the cache as
\* it was.
C18_WindowFromBirthUndeleted ==
    [][(ModifiedSoonAfterBirth /\ ~hist[last'.name].borndel) =>
          /\ last'.subjects = <<>>
          /\ last'.outcome = "suppressed"
          /\ file_content' = file_content
          /\ last_modified_files' = last_modified_files]_vars

\* A "modified" event suppressed a second after the "created" of its name,
\* before any "modified" of the name was notified.
C18_Witness ==
    /\ last.kind = "modified"
    /\ Watched(last)
    /\ last.outcome = "suppressed"
    /\ hist[last.name].mod = 0
    /\ hist[last.name].born > StartTime
    /\ ~hist[last.name].borndel
    /\ now - hist[last.name].born = 1

\* C19: the names with cached lines are the names with a cached time, and
\* no name that starts with "FileMonitor_" and ends with ".log" is among
\* them.
C19_SameNames ==
    /\ DOMAIN file_content = DOMAIN last_modified_files
    /\ \A n \in DOMAIN file_content \cup DOMAIN last_modified_files : ~LogPattern(n)

\* Two names cached, after a "modified" event whose file could not be opened
\* and whose mail the transport refused.
C19_Witness ==
    /\ Cardinality(DOMAIN file_content) = 2
    /\ DOMAIN file_content = DOMAIN last_modified_files
    /\ last.kind = "modified"
    /\ last.opened = <<Unreadable>>
    /\ last.sent = <<FALSE>>

\* C20: a "deleted" event of a watched name the cache has no entry for hands
\* one mail "File Deleted" to the transport and leaves the cache as it was;
\* so does the second of two "deleted" events of a name in a row.
C20_DeleteUnknown ==
    [][(/\ Delivered
        /\ last'.kind = "deleted"
        /\ Watched(last')
        /\ last'.name \notin DOMAIN file_content) =>
          /\ last'.subjects = <<"File Deleted">>
          /\ Len(last'.sent) = 1
          /\ file_content' = file_content
          /\ last_modified_files' = last_modified_files]_vars

\* The second of two events about the one name of the directory, a
\* "deleted" that found no entry: the first left no entry, so it was a
\* "deleted" too, and each was notified.
C20_Witness ==
    /\ nEvents = 2
    /\ Cardinality(env.names) = 1
    /\ last.kind = "deleted"
    /\ Watched(last)
    /\ hist[last.name].gone = <<>>
    /\ last.subjects = <<"File Deleted">>
    /\ last.name \notin DOMAIN file_content

=============================================================================
